---- MODULE Spec2Model ----
(***************************************************************************)
(* A model of the Properati scraper: the orchestrator ProperatiScraper     *)
(* (main.py), the extractors it dispatches to (detail_scraper.py,          *)
(* project_scraper.py, listing_scraper.py), the page fetcher               *)
(* (base_scraper.py) and the checkpointed store (main.py and               *)
(* utils/file_handlers.py).                                                *)
(*                                                                         *)
(* The web site, the browser and the file system are the environment:      *)
(* every fetch draws its outcome, every page its content and every write   *)
(* its outcome from small sets.                                            *)
(***************************************************************************)
EXTENDS Integers, Sequences, FiniteSets, TLC

VARIABLES
    \* ProperatiScraper configuration (main.py __init__)
    mode, max_pages, scrape_project_units,
    \* the checkpoint threshold read by _save_data_incremental
    interval,
    \* ProperatiScraper data storage
    data, properties_processed, backup_counter,
    \* DataHandler and the data folder
    csv_filename, json_filename, disk, now, storage,
    \* WebDriverController and the drivers the extractors hold
    ctrl_driver, listing_driver, detail_driver, project_driver, live, sessions,
    \* position and locals of run()
    pc, sec, page, captcha_encountered, links, page_properties,
    \* the environment: how many more hrefs the site serves in this run
    hrefBudget,
    \* observations of the run (history)
    fetchCount, flushCount, lastWrite, lastOp, okStreak,
    nRecord, nForce,
    log, faultAt, recoveries, blockedSeen, loadFailSeen,
    discovered, dispatched, unitAttempts, returned, nCalls,
    \* the links of the listing pages that loaded and on which the paging ended
    skipped,
    \* the summary log_statistics last logged, if any
    stats,
    \* the arguments and the result of the last call of a helper function
    arg, ret

vars == << mode, max_pages, scrape_project_units, interval,
           data, properties_processed, backup_counter,
           csv_filename, json_filename, disk, now, storage,
           ctrl_driver, listing_driver, detail_driver, project_driver, live, sessions,
           pc, sec, page, captcha_encountered, links, page_properties,
           hrefBudget,
           fetchCount, flushCount, lastWrite, lastOp, okStreak,
           nRecord, nForce,
           log, faultAt, recoveries, blockedSeen, loadFailSeen,
           discovered, dispatched, unitAttempts, returned, nCalls, skipped, stats, arg, ret >>

(***************************************************************************)
(* Bounds of the model and constants of the program.                       *)
(***************************************************************************)
\* config.py: BACKUP_INTERVAL
BACKUP_INTERVAL == 12

\* the largest max_pages a run is configured with
MaxPages == 2
\* the most hrefs one page holds
MaxLinks == 2
\* the most hrefs the site serves during one run (listing and project pages)
MaxHrefs == 2
\* the latest clock reading
MaxClock == 1
\* the most records the store harness accumulates
MaxStore == 13
\* the most forced flushes the store harness requests
MaxForce == 2
\* the most extractor calls the extractor harness makes
MaxCalls == 2
\* the longest record list the statistics harness summarizes
MaxStatLen == 2

(***************************************************************************)
(* URLs.  A URL is a string; the path markers it contains are looked up.   *)
(***************************************************************************)
DetailUrls == {"/detalle/1", "/detalle/2"}
ProjectUrls == {"/proyecto/1"}
OtherUrls == {"/otro/1"}
Urls == DetailUrls \cup ProjectUrls \cup OtherUrls

\* '/detalle/' in url
HasDetalle(url) == url \in DetailUrls
\* '/proyecto/' in url
HasProyecto(url) == url \in ProjectUrls

(***************************************************************************)
(* Records.  A Python dict with optional keys is a record over Fields in   *)
(* which a missing key holds Absent and a None value holds None.            *)
(***************************************************************************)
Absent == "<absent>"
None == "<None>"
Date == "date"
Si == "Si"
Titles == {"T", "N/A"}

\* dict.get(key) is falsy: missing, None or the empty string
Falsy(v) == v \in {Absent, None, ""}

\* {"URL": url, "Error": err, "Extraction Date": now}
ErrorRecord(url, err) ==
    [URL |-> url, Title |-> Absent, Error |-> err, ExtractionDate |-> Date,
     Is_Project |-> Absent, Is_Project_Unit |-> Absent,
     Project_Parent |-> Absent, Project_Name |-> Absent]

\* {"URL": url, "Error": "Unknown URL type"}
UnknownTypeRecord(url) ==
    [URL |-> url, Title |-> Absent, Error |-> "Unknown URL type", ExtractionDate |-> Absent,
     Is_Project |-> Absent, Is_Project_Unit |-> Absent,
     Project_Parent |-> Absent, Project_Name |-> Absent]

\* the item built by _parse_detalle_html and by scrape_unit_property
DetailRecord(url, title) ==
    [URL |-> url, Title |-> title, Error |-> None, ExtractionDate |-> Date,
     Is_Project |-> Absent, Is_Project_Unit |-> Absent,
     Project_Parent |-> Absent, Project_Name |-> Absent]

\* the item built by _parse_proyecto_html and by _extract_project_info
ProjectRecord(url, title) ==
    [URL |-> url, Title |-> title, Error |-> None, ExtractionDate |-> Date,
     Is_Project |-> Si, Is_Project_Unit |-> Absent,
     Project_Parent |-> Absent, Project_Name |-> Absent]

Fields == {"URL", "Title", "Error", "ExtractionDate", "Is_Project", "Is_Project_Unit",
           "Project_Parent", "Project_Name"}

(***************************************************************************)
(* DataHandler (utils/file_handlers.py).                                   *)
(***************************************************************************)
FileNames == {"csv", "json"} \X (0 .. MaxClock)

\* _initialize_filenames: both names carry the timestamp of the call
InitializeFilenames(t) == [csv |-> <<"csv", t>>, json |-> <<"json", t>>]

\* pd.DataFrame(data).to_csv: the columns are the keys any record has, and a
\* missing or None value is written as the empty string
CsvColumns(d) == {f \in Fields : \E i \in 1 .. Len(d) : d[i][f] # Absent}
CsvRow(r, cols) == [f \in cols |-> IF r[f] \in {Absent, None} THEN "" ELSE r[f]]
ToCsv(d) == [i \in 1 .. Len(d) |-> CsvRow(d[i], CsvColumns(d))]

WriteOutcomes == {"ok", "csv_error", "json_error"}

\* how the next write can end: the data folder works, or fails, for the whole
\* run, or ("any") each write ends on its own
Writes == IF storage = "any" THEN WriteOutcomes ELSE {storage}

\* file names stamped anew at every save
TargetFilesRestamped(csvn, jsonn, t) ==
    [csv |-> <<"csv", t>>, json |-> <<"json", t>>]

\* the files save_data writes: self.csv_filename and self.json_filename, set
\* once by __init__, whatever the time t of the call
TargetFiles(csvn, jsonn, t) == [csv |-> csvn, json |-> jsonn]

\* a save that opens its files in append mode
save_data_append(dk, csvn, jsonn, t, d, w) ==
    IF d = << >> THEN dk
    ELSE [dk EXCEPT ![csvn] = dk[csvn] \o ToCsv(d), ![jsonn] = dk[jsonn] \o d]

\* save_data(data) at time t: the files after the call, on the disk dk, when
\* the write ends as w.  Nothing is written for an empty list; both files are
\* rewritten whole, the CSV first; an error is logged and swallowed, leaving
\* what was written before it.
save_data(dk, csvn, jsonn, t, d, w) ==
    LET f == TargetFiles(csvn, jsonn, t) IN
    IF d = << >> THEN dk
    ELSE IF w = "csv_error" THEN dk
    ELSE IF w = "json_error" THEN [dk EXCEPT ![f.csv] = ToCsv(d)]
    ELSE [dk EXCEPT ![f.csv] = ToCsv(d), ![f.json] = d]

\* whether save_data(data) reached its write
Wrote(d) == d # << >>

\* item.get(key): the value, or nothing for a key the record does not have
Get(item, key) == IF key \in DOMAIN item THEN item[key] ELSE Absent

\* item.get('Title') != 'N/A' and not item.get('Error')
IsValid(item) == Get(item, "Title") # "N/A" /\ Falsy(Get(item, "Error"))
\* item.get('Is_Project') == 'Sí'
IsProject(item) == Get(item, "Is_Project") = Si
\* item.get('Is_Project_Unit') == 'Sí'
IsProjectUnit(item) == Get(item, "Is_Project_Unit") = Si
\* item.get('Property_Category') == 'Lote/Terreno'
IsLot(item) == Get(item, "Property_Category") = "Lote/Terreno"

\* a summary that takes the valid records for the total
generate_statistics_valid_total(d) ==
    [total_records |-> Len(SelectSeq(d, IsValid)),
     valid_records |-> Len(SelectSeq(d, IsValid)),
     projects |-> Len(SelectSeq(d, IsProject)),
     project_units |-> Len(SelectSeq(d, IsProjectUnit)),
     individual_properties |-> Len(SelectSeq(d, IsValid)) - Len(SelectSeq(d, IsProject)) - Len(SelectSeq(d, IsProjectUnit)),
     lots_land |-> Len(SelectSeq(d, IsLot))]

\* generate_statistics(data)
generate_statistics(d) ==
    [total_records |-> Len(d),
     valid_records |-> Len(SelectSeq(d, IsValid)),
     projects |-> Len(SelectSeq(d, IsProject)),
     project_units |-> Len(SelectSeq(d, IsProjectUnit)),
     individual_properties |-> Len(SelectSeq(d, IsValid)) - Len(SelectSeq(d, IsProject)) - Len(SelectSeq(d, IsProjectUnit)),
     lots_land |-> Len(SelectSeq(d, IsLot))]

(***************************************************************************)
(* ProperatiScraper._save_data_incremental (main.py).                      *)
(***************************************************************************)
\* a flush guard that waits for the counter to pass the threshold
FlushDueStrict(counter, force, threshold) == force \/ counter > threshold
\* a flush guard that writes on every call
FlushDueAlways(counter, force, threshold) == TRUE

\* the guard of the flush: force_save or backup_counter >= BACKUP_INTERVAL
FlushDue(counter, force, threshold) == force \/ counter >= threshold

\* the counter after the call
CounterAfter(counter, force, threshold) ==
    IF FlushDue(counter, force, threshold) THEN 0 ELSE counter

\* _save_data_incremental(new_properties_count, force_save) on the list d,
\* which the caller has already extended
SaveDataIncremental(d, count, force, w) ==
    IF d = << >>
    THEN /\ UNCHANGED << properties_processed, backup_counter, disk, flushCount >>
         /\ lastWrite' = "none"
    ELSE /\ properties_processed' = properties_processed + count
         /\ backup_counter' = CounterAfter(backup_counter + count, force, interval)
         /\ IF FlushDue(backup_counter + count, force, interval)
            THEN /\ disk' = save_data(disk, csv_filename, json_filename, now, d, w)
                 /\ flushCount' = flushCount + 1
                 /\ lastWrite' = w
            ELSE /\ UNCHANGED << disk, flushCount >>
                 /\ lastWrite' = "none"

(***************************************************************************)
(* The page fetcher (scrapers/base_scraper.py).  A fetch is what the site   *)
(* and the browser do with one driver.get: its outcome and, when the page   *)
(* loads clean, the page.                                                   *)
(***************************************************************************)
FetchOutcomes == {"ok", "captcha", "timeout", "exception"}

\* a page: the title its selectors find, the hrefs of its anchors in document
\* order, whether parsing it raises, and whether it shows the end of pagination
Page(title, hrefs, parse, limit) ==
    [title |-> title, hrefs |-> hrefs, parse |-> parse, limit |-> limit]
NoPage == Page("N/A", << >>, "ok", FALSE)

Fetch(outcome, pg) == [outcome |-> outcome, page |-> pg]
FailedFetches == {Fetch(o, NoPage) : o \in FetchOutcomes \ {"ok"}}

\* all sequences over S of length at most n
SeqsUpTo(S, n) == UNION {[1 .. k -> S] : k \in 0 .. n}

\* scrape_with_captcha_protection: the html, or None when the page timed out,
\* when the navigation raised and when a CAPTCHA was detected
ScrapeWithCaptchaProtection(f) ==
    IF f.outcome = "ok" THEN [isNone |-> FALSE, page |-> f.page]
    ELSE [isNone |-> TRUE, page |-> NoPage]

(***************************************************************************)
(* The detail extractor (scrapers/detail_scraper.py).                      *)
(***************************************************************************)
\* scrape_property(url) when the fetch of url ends as f
scrape_property(url, f) ==
    LET html == ScrapeWithCaptchaProtection(f) IN
    IF html.isNone THEN ErrorRecord(url, "CAPTCHA detected")
    ELSE IF HasProyecto(url)
         THEN IF html.page.parse = "raises" THEN ErrorRecord(url, "scraping_error")
              ELSE ProjectRecord(url, html.page.title)
    ELSE IF HasDetalle(url)
         THEN IF html.page.parse = "raises" THEN ErrorRecord(url, "scraping_error")
              ELSE DetailRecord(url, html.page.title)
    ELSE UnknownTypeRecord(url)

(***************************************************************************)
(* The project extractor (scrapers/project_scraper.py).                    *)
(***************************************************************************)
\* if full_url not in unit_links: unit_links.append(full_url)
AppendNew(acc, x) ==
    IF \E i \in 1 .. Len(acc) : acc[i] = x THEN acc ELSE Append(acc, x)

RECURSIVE OrderedUnique(_)
\* the elements of s in the order of their first occurrence
OrderedUnique(s) ==
    IF s = << >> THEN << >>
    ELSE AppendNew(OrderedUnique(SubSeq(s, 1, Len(s) - 1)), s[Len(s)])

\* extract_unit_links(project_url) when its own fetch of the project page ends
\* as f: the hrefs with the detail marker, each once, in document order
extract_unit_links(f) ==
    LET html == ScrapeWithCaptchaProtection(f) IN
    IF html.isNone THEN << >>
    ELSE OrderedUnique(SelectSeq(html.page.hrefs, HasDetalle))

\* scrape_unit_property(unit_url) when the fetch of the unit ends as f
scrape_unit_property(url, f) ==
    LET html == ScrapeWithCaptchaProtection(f) IN
    IF html.isNone THEN ErrorRecord(url, "CAPTCHA detected")
    ELSE IF html.page.parse = "raises" THEN ErrorRecord(url, "unit_scraping_error")
    ELSE DetailRecord(url, html.page.title)

\* the except branch of scrape_project_with_units
ProjectErrorRecord(url) ==
    [ErrorRecord(url, "project_error") EXCEPT !.Title = "Error scraping project"]

\* unit_result marked as a unit of the project
MarkUnit(r, project_url, project_title) ==
    [r EXCEPT !.Project_Parent = project_url,
              !.Project_Name = project_title,
              !.Is_Project_Unit = Si]

\* a unit loop that appends every unit result
UnitKeptAlways(r) == TRUE

\* whether a unit result is appended: unit_result and not unit_result.get("Error")
UnitKept(r) == Falsy(r.Error)

\* scrape_project_with_units(project_url): f1 is the fetch of the project
\* page, f2 the fetch extract_unit_links makes of it, ufs[i] the fetch of the
\* i-th unit link
scrape_project_with_units(url, f1, f2, ufs) ==
    LET html == ScrapeWithCaptchaProtection(f1) IN
    IF html.isNone THEN << ErrorRecord(url, "CAPTCHA detected") >>
    ELSE IF html.page.parse = "raises" THEN << ProjectErrorRecord(url) >>
    ELSE LET project_info == ProjectRecord(url, html.page.title)
             unit_links == extract_unit_links(f2)
             results == [i \in 1 .. Len(unit_links) |->
                            scrape_unit_property(unit_links[i], ufs[i])]
             kept == SelectSeq(results, UnitKept)
         IN  << project_info >> \o
             [i \in 1 .. Len(kept) |-> MarkUnit(kept[i], url, project_info.Title)]

\* the fetches scrape_project_with_units makes: the project page, the project
\* page again for its unit links, and each unit
ProjectFetchCount(f1, f2) ==
    IF f1.outcome # "ok" \/ f1.page.parse = "raises" THEN 1
    ELSE 2 + Len(extract_unit_links(f2))

(***************************************************************************)
(* What the site can answer.                                               *)
(***************************************************************************)
\* a detail page, a unit page or the first load of a project page, its title
\* among T
ContentFetchesOf(T) ==
    {Fetch("ok", Page(t, << >>, p, FALSE)) : t \in T, p \in {"ok", "raises"}}
        \cup FailedFetches

\* for the extractors on their own: titled and untitled pages
ContentFetches == ContentFetchesOf(Titles)

\* during a run: every page that loads has a title
RunFetches == ContentFetchesOf({"T"})

\* a page with at most n anchors, their hrefs among U
LinkFetches(U, n, limits) ==
    {Fetch("ok", Page("T", h, "ok", l)) : h \in SeqsUpTo(U, n), l \in limits}
        \cup FailedFetches

\* the hrefs a project page can hold
ProjectHrefs == DetailUrls \cup ProjectUrls

Min(a, b) == IF a < b THEN a ELSE b

\* the answers to the fetch extract_unit_links makes of a project page with at
\* most n anchors; the fetch is not made when the first load f1 of the page
\* failed, and f1 stands in for it
UnitListFetches(f1, n) ==
    IF f1.outcome # "ok" \/ f1.page.parse = "raises" THEN {f1}
    ELSE LinkFetches(ProjectHrefs, n, {FALSE})

(***************************************************************************)
(* The state after construction (ProperatiScraper.__init__).               *)
(***************************************************************************)
\* the modes the runs of the model are configured with ("arriendo" is "venta"
\* under another name)
Modes == {"todos", "venta"}

\* everything __init__ sets, for a run in mode m with at most p pages
Constructed(m, p, u, t, st) ==
    /\ storage = st
    /\ mode = m
    /\ max_pages = p
    /\ scrape_project_units = u
    /\ interval = t
    /\ data = << >>
    /\ properties_processed = 0
    /\ backup_counter = 0
    /\ now = 0
    /\ csv_filename = InitializeFilenames(0).csv
    /\ json_filename = InitializeFilenames(0).json
    /\ disk = [f \in FileNames |-> << >>]
    /\ ctrl_driver = 1
    /\ listing_driver = 1
    /\ detail_driver = 1
    /\ project_driver = 1
    /\ live = {1}
    /\ sessions = 1
    /\ sec = 1
    /\ page = 1
    /\ captcha_encountered = FALSE
    /\ links = << >>
    /\ page_properties = << >>
    /\ hrefBudget = MaxHrefs
    /\ fetchCount = 0
    /\ flushCount = 0
    /\ lastWrite = "none"
    /\ lastOp = "none"
    /\ okStreak = 0
    /\ nRecord = 0
    /\ nForce = 0
    /\ log = {}
    /\ faultAt = "none"
    /\ recoveries = 0
    /\ blockedSeen = FALSE
    /\ loadFailSeen = FALSE
    /\ discovered = << >>
    /\ skipped = {}
    /\ dispatched = << >>
    /\ unitAttempts = << >>
    /\ returned = << >>
    /\ nCalls = 0
    /\ stats = << >>
    /\ arg = << >>
    /\ ret = << >>

\* what the store operations leave alone
StoreFrame ==
    UNCHANGED << mode, max_pages, scrape_project_units, interval, storage,
                 csv_filename, json_filename,
                 ctrl_driver, listing_driver, detail_driver, project_driver, live, sessions,
                 pc, sec, page, captcha_encountered, links, page_properties,
                 hrefBudget, fetchCount,
                 log, faultAt, recoveries, blockedSeen, loadFailSeen,
                 discovered, dispatched, unitAttempts, returned, nCalls, skipped, stats, arg, ret >>

(***************************************************************************)
(* The listing extractor (scrapers/listing_scraper.py).                    *)
(***************************************************************************)
\* the links extract_links_from_soup collects in its set
ListingLinkSet(pg) ==
    {pg.hrefs[i] : i \in {j \in 1 .. Len(pg.hrefs) :
                              HasDetalle(pg.hrefs[j]) \/ HasProyecto(pg.hrefs[j])}}

\* list(links) of a set of strings: the set in an order the build chooses
ListOfSet(S) ==
    {l \in [1 .. Cardinality(S) -> S] : \A i, j \in 1 .. Cardinality(S) : l[i] = l[j] => i = j}

\* the lists extract_links_from_soup can return for a page
extract_links_from_soup(pg) == ListOfSet(ListingLinkSet(pg))

\* the order in which extract_links_from_soup meets the links of a page: the
\* anchors of the '/detalle/' selector in document order, then those of the
\* '/proyecto/' selector, each link at its first occurrence
DiscoveryOrder(pg) ==
    OrderedUnique(SelectSeq(pg.hrefs, HasDetalle) \o SelectSeq(pg.hrefs, HasProyecto))

\* check_pagination_limit(soup, page)
check_pagination_limit(pg) == pg.limit

(***************************************************************************)
(* WebDriverController (drivers.py).                                       *)
(***************************************************************************)
\* _handle_captcha: wait_time = random.randint(180, 300), slept in steps of 30
CaptchaWaitMin == 180
CaptchaWaitMax == 300
SleepStep == 30

RECURSIVE SleepFrom(_)
\* the seconds slept by `for i in range(i, 0, -30): time.sleep(min(30, i))`
SleepFrom(i) ==
    IF i <= 0 THEN 0 ELSE Min(SleepStep, i) + SleepFrom(i - SleepStep)

\* a close that quits nothing
close_nothing(lv, drv) == lv

\* close(): driver.quit() ends the session
close(lv, drv) == lv \ {drv}

(***************************************************************************)
(* ProperatiScraper.run (main.py).                                         *)
(***************************************************************************)
\* sections = ["venta", "arriendo"] if self.mode == "todos" else [self.mode]
Sections(m) == IF m = "todos" THEN << "venta", "arriendo" >> ELSE << m >>

\* a loop head that never skips
SkipNever(flag) == FALSE

\* if captcha_encountered: break, at the head of the section and page loops
SkipOnCaptcha(flag) == flag

\* a store that keeps only the results without Error
ResultsToStoreOnlyValid(property_result) ==
    IF Falsy(property_result.Error) THEN << property_result >> ELSE << >>

\* what run() appends for an individual property: the result, valid or not
\* (an invalid one already carries its Error)
ResultsToStore(property_result) ==
    IF Falsy(property_result.Error) THEN << property_result >>
    ELSE << IF Falsy(property_result.Error)
            THEN [property_result EXCEPT !.Error = "Invalid data or CAPTCHA"]
            ELSE property_result >>

\* a page loop that takes the same page again
AfterPageAgain(s, pg, m, mp) == [pc |-> "page", sec |-> s, page |-> pg]

\* the loop position after the body of page pg of section s ends or continues
AfterPage(s, pg, m, mp) ==
    IF pg < mp THEN [pc |-> "page", sec |-> s, page |-> pg + 1]
    ELSE IF s < Len(Sections(m)) THEN [pc |-> "page", sec |-> s + 1, page |-> 1]
    ELSE [pc |-> "final", sec |-> s, page |-> pg]

\* a break that only ends the page, as a continue would
AfterBreakAsContinue(s, pg, m) == AfterPage(s, pg, m, max_pages)

\* the loop position after a break out of the page loop of section s
AfterBreak(s, pg, m) ==
    IF s < Len(Sections(m)) THEN [pc |-> "page", sec |-> s + 1, page |-> 1]
    ELSE [pc |-> "final", sec |-> s, page |-> pg]

Goto(pos) ==
    /\ pc' = pos.pc
    /\ sec' = pos.sec
    /\ page' = pos.page

Init ==
    /\ \E m \in Modes, p \in 1 .. MaxPages, u \in BOOLEAN, st \in WriteOutcomes :
          Constructed(m, p, u, BACKUP_INTERVAL, st)
    /\ pc = "start"

Config == << mode, max_pages, scrape_project_units, interval, csv_filename, json_filename,
            now, storage >>
Store == << data, properties_processed, backup_counter, disk, flushCount, lastWrite, stats >>
Browser == << ctrl_driver, listing_driver, detail_driver, project_driver, live, sessions >>
Harness == << okStreak, nRecord, nForce, returned, nCalls, arg, ret >>

\* ensure_folder_exists(DATA_FOLDER) and the set-up of the loops
Start ==
    /\ pc = "start"
    /\ pc' = "page"
    /\ lastOp' = "start"
    /\ UNCHANGED << Config, Store, Browser, Harness, skipped, sec, page, captcha_encountered,
                    links, page_properties, hrefBudget, fetchCount, log, faultAt,
                    recoveries, blockedSeen, loadFailSeen, discovered, dispatched,
                    unitAttempts >>

\* ensure_folder_exists raises
StartFault ==
    /\ pc = "start"
    /\ pc' = "except"
    /\ faultAt' = "setup"
    /\ lastOp' = "start"
    /\ UNCHANGED << Config, Store, Browser, Harness, skipped, sec, page, captcha_encountered,
                    links, page_properties, hrefBudget, fetchCount, log,
                    recoveries, blockedSeen, loadFailSeen, discovered, dispatched,
                    unitAttempts >>

\* the loop heads once the flag is set: both loops are left
SkipAfterCaptcha ==
    /\ pc = "page"
    /\ SkipOnCaptcha(captcha_encountered)
    /\ pc' = "final"
    /\ lastOp' = "skip"
    /\ UNCHANGED << Config, Store, Browser, Harness, skipped, sec, page, captcha_encountered,
                    links, page_properties, hrefBudget, fetchCount, log, faultAt,
                    recoveries, blockedSeen, loadFailSeen, discovered, dispatched,
                    unitAttempts >>

\* the fetches the site can answer a listing request with
ListingFetches == LinkFetches(Urls, Min(MaxLinks, hrefBudget), BOOLEAN)

\* what every fetch of a listing page does to the observations
ListingFetchObserved(f) ==
    /\ fetchCount' = fetchCount + 1
    /\ blockedSeen' = (blockedSeen \/ f.outcome = "captcha")
    /\ loadFailSeen' = (loadFailSeen \/ f.outcome \in {"timeout", "exception"})
    /\ hrefBudget' = hrefBudget - Len(f.page.hrefs)

\* the listing page comes back None: the flag is set, _handle_captcha waits
\* and restarts the browser, and the page loop continues
ListingNone ==
    /\ pc = "page"
    /\ ~SkipOnCaptcha(captcha_encountered)
    /\ \E f \in ListingFetches :
          /\ ScrapeWithCaptchaProtection(f).isNone
          /\ ListingFetchObserved(f)
    /\ captcha_encountered' = TRUE
    /\ recoveries' = recoveries + 1
    /\ sessions' = sessions + 1
    /\ live' = close(live, ctrl_driver) \cup {sessions'}
    /\ ctrl_driver' = sessions'
    /\ listing_driver' = sessions'
    /\ detail_driver' = sessions'
    /\ project_driver' = sessions'
    /\ Goto(AfterPage(sec, page, mode, max_pages))
    /\ lastOp' = "listing"
    /\ UNCHANGED << Config, Store, Harness, skipped, links, page_properties, log, faultAt,
                    discovered, dispatched, unitAttempts >>

\* the listing page comes back None and the new WebDriverController raises:
\* the old browser is closed, no new one exists, run() goes to its handler
ListingNoneRestartFault ==
    /\ pc = "page"
    /\ ~SkipOnCaptcha(captcha_encountered)
    /\ \E f \in ListingFetches :
          /\ ScrapeWithCaptchaProtection(f).isNone
          /\ ListingFetchObserved(f)
    /\ captcha_encountered' = TRUE
    /\ recoveries' = recoveries + 1
    /\ live' = close(live, ctrl_driver)
    /\ pc' = "except"
    /\ faultAt' = "handle_captcha"
    /\ lastOp' = "listing"
    /\ UNCHANGED << Config, Store, Harness, skipped, sec, page, ctrl_driver, listing_driver,
                    detail_driver, project_driver, sessions, links, page_properties,
                    log, discovered, dispatched, unitAttempts >>

\* the listing page shows the end of pagination, or holds no link: the page
\* loop of the section is left
ListingBreak ==
    /\ pc = "page"
    /\ ~SkipOnCaptcha(captcha_encountered)
    /\ \E f \in ListingFetches :
          /\ ~ScrapeWithCaptchaProtection(f).isNone
          /\ check_pagination_limit(f.page) \/ ListingLinkSet(f.page) = {}
          /\ ListingFetchObserved(f)
          /\ skipped' = skipped \cup ListingLinkSet(f.page)
    /\ Goto(AfterBreak(sec, page, mode))
    /\ lastOp' = "listing"
    /\ UNCHANGED << Config, Store, Browser, Harness, captcha_encountered, links,
                    page_properties, log, faultAt, recoveries, discovered, dispatched,
                    unitAttempts >>

\* the listing page holds links: they are processed next
ListingLinks ==
    /\ pc = "page"
    /\ ~SkipOnCaptcha(captcha_encountered)
    /\ \E f \in ListingFetches :
          /\ ~ScrapeWithCaptchaProtection(f).isNone
          /\ ~check_pagination_limit(f.page)
          /\ ListingLinkSet(f.page) # {}
          /\ ListingFetchObserved(f)
          /\ links' \in extract_links_from_soup(f.page)
          /\ discovered' = discovered \o DiscoveryOrder(f.page)
    /\ page_properties' = << >>
    /\ pc' = "links"
    /\ lastOp' = "listing"
    /\ UNCHANGED << Config, Store, Browser, Harness, skipped, sec, page, captcha_encountered,
                    log, faultAt, recoveries, dispatched, unitAttempts >>

\* whether the first fetch of a link failed or its page could not be parsed
AttemptFailed(f) == f.outcome # "ok" \/ f.page.parse = "raises"

\* a project link: scrape_project_with_units, extend, _save_data_incremental
DispatchProject ==
    /\ pc = "links"
    /\ ~captcha_encountered
    /\ links # << >>
    /\ HasProyecto(Head(links)) /\ scrape_project_units
    /\ \E f1 \in RunFetches :
       \E f2 \in UnitListFetches(f1, Min(MaxLinks, hrefBudget)) :
          \E ufs \in [1 .. Len(extract_unit_links(f2)) -> RunFetches] :
             LET url == Head(links)
                 reached == ~AttemptFailed(f1)
                 unit_links == IF reached THEN extract_unit_links(f2) ELSE << >>
                 used == IF reached THEN {f1, f2} \cup {ufs[i] : i \in 1 .. Len(unit_links)}
                         ELSE {f1}
                 project_data == scrape_project_with_units(url, f1, f2, ufs)
             IN /\ data' = data \o project_data
                /\ \E w \in Writes :
                      SaveDataIncremental(data', Len(project_data), FALSE, w)
                /\ fetchCount' = fetchCount + ProjectFetchCount(f1, f2)
                /\ hrefBudget' = IF reached THEN hrefBudget - Len(f2.page.hrefs)
                                 ELSE hrefBudget
                /\ blockedSeen' = (blockedSeen \/ \E f \in used : f.outcome = "captcha")
                /\ loadFailSeen' = (loadFailSeen \/
                                      \E f \in used : f.outcome \in {"timeout", "exception"})
                /\ dispatched' = Append(dispatched, [url |-> url, failed |-> ~reached])
                /\ unitAttempts' = unitAttempts \o
                      [i \in 1 .. Len(unit_links) |->
                          [url |-> unit_links[i], failed |-> AttemptFailed(ufs[i])]]
    /\ links' = Tail(links)
    /\ lastOp' = "project"
    /\ UNCHANGED << Config, Browser, Harness, skipped, pc, sec, page, captcha_encountered,
                    page_properties, log, faultAt, recoveries, discovered, stats >>

\* any other link: scrape_property, append, _save_data_incremental(1)
DispatchProperty ==
    /\ pc = "links"
    /\ ~captcha_encountered
    /\ links # << >>
    /\ ~(HasProyecto(Head(links)) /\ scrape_project_units)
    /\ \E f \in RunFetches :
          LET url == Head(links)
              stored == ResultsToStore(scrape_property(url, f))
          IN /\ data' = data \o stored
             /\ page_properties' = page_properties \o stored
             /\ \E w \in Writes : SaveDataIncremental(data', 1, FALSE, w)
             /\ blockedSeen' = (blockedSeen \/ f.outcome = "captcha")
             /\ loadFailSeen' = (loadFailSeen \/ f.outcome \in {"timeout", "exception"})
             /\ dispatched' = Append(dispatched, [url |-> url, failed |-> AttemptFailed(f)])
    /\ fetchCount' = fetchCount + 1
    /\ links' = Tail(links)
    /\ lastOp' = "property"
    /\ UNCHANGED << Config, Browser, Harness, skipped, pc, sec, page, captcha_encountered,
                    hrefBudget, log, faultAt, recoveries, discovered, unitAttempts, stats >>

\* the end of a page: the forced flush when the page gave individual
\* properties, the pause, and the next page
PageEnd ==
    /\ pc = "links"
    /\ links = << >> \/ captcha_encountered
    /\ IF page_properties # << >>
       THEN \E w \in Writes : SaveDataIncremental(data, 0, TRUE, w)
       ELSE UNCHANGED << properties_processed, backup_counter, disk, flushCount, lastWrite >>
    /\ Goto(AfterPage(sec, page, mode, max_pages))
    /\ lastOp' = "page_end"
    /\ UNCHANGED << Config, Browser, Harness, skipped, data, captcha_encountered, links,
                    page_properties, hrefBudget, fetchCount, log, faultAt, recoveries,
                    blockedSeen, loadFailSeen, discovered, dispatched, unitAttempts, stats >>

\* the message run() logs at its end
EndMessage(flag) == IF flag THEN "interrupted" ELSE "completed"

\* after the loops: the final save, the statistics and the end message
Final ==
    /\ pc = "final"
    /\ \E w \in Writes :
          /\ disk' = save_data(disk, csv_filename, json_filename, now, data, w)
          /\ lastWrite' = IF Wrote(data) THEN w ELSE "none"
    /\ flushCount' = IF Wrote(data) THEN flushCount + 1 ELSE flushCount
    /\ log' = log \cup {"final_flush", "statistics", EndMessage(captcha_encountered)}
    /\ stats' = << generate_statistics(data) >>
    /\ pc' = "finally"
    /\ lastOp' = "final"
    /\ UNCHANGED << Config, Browser, Harness, skipped, data, properties_processed, backup_counter,
                    sec, page, captcha_encountered, links, page_properties, hrefBudget,
                    fetchCount, faultAt, recoveries, blockedSeen, loadFailSeen,
                    discovered, dispatched, unitAttempts >>

\* the handler of run(): with data, a forced flush, a save and the statistics
Except ==
    /\ pc = "except"
    /\ IF data # << >>
       THEN /\ \E w1, w2 \in Writes :
                 /\ disk' = save_data(save_data(disk, csv_filename, json_filename, now, data, w1),
                                      csv_filename, json_filename, now, data, w2)
                 /\ lastWrite' = w2
            /\ backup_counter' = CounterAfter(backup_counter, TRUE, interval)
            /\ flushCount' = flushCount + 2
            /\ log' = log \cup {"final_flush", "statistics"}
            /\ stats' = << generate_statistics(data) >>
       ELSE UNCHANGED << disk, lastWrite, backup_counter, flushCount, log, stats >>
    /\ pc' = "finally"
    /\ lastOp' = "except"
    /\ UNCHANGED << Config, Browser, Harness, skipped, data, properties_processed,
                    sec, page, captcha_encountered, links, page_properties, hrefBudget,
                    fetchCount, faultAt, recoveries, blockedSeen, loadFailSeen,
                    discovered, dispatched, unitAttempts >>

\* finally: self.ctrl.close()
Finally ==
    /\ pc = "finally"
    /\ live' = close(live, ctrl_driver)
    /\ log' = log \cup {"teardown"}
    /\ pc' = "done"
    /\ lastOp' = "finally"
    /\ UNCHANGED << Config, Store, Harness, skipped, ctrl_driver, listing_driver, detail_driver,
                    project_driver, sessions, sec, page, captcha_encountered, links,
                    page_properties, hrefBudget, fetchCount, faultAt, recoveries,
                    blockedSeen, loadFailSeen, discovered, dispatched, unitAttempts >>

Next ==
    \/ Start
    \/ StartFault
    \/ SkipAfterCaptcha
    \/ ListingNone
    \/ ListingNoneRestartFault
    \/ ListingBreak
    \/ ListingLinks
    \/ DispatchProject
    \/ DispatchProperty
    \/ PageEnd
    \/ Final
    \/ Except
    \/ Finally

Spec == Init /\ [][Next]_vars

\* run() when every page fetch, every write and every timed pause returns
SpecFair == Spec /\ WF_vars(Next)

(***************************************************************************)
(* The checkpointed store on its own: the calls run() makes on it, for     *)
(* every threshold from 1 to BACKUP_INTERVAL.                              *)
(***************************************************************************)
StoreItem == DetailRecord("/detalle/1", "T")

InitStore ==
    /\ \E t \in 1 .. BACKUP_INTERVAL : Constructed("venta", 1, TRUE, t, "any")
    /\ pc = "store"

\* self.data.append(r); self._save_data_incremental(1)
StoreRecord ==
    /\ pc = "store"
    /\ Len(data) < MaxStore
    /\ data' = Append(data, StoreItem)
    /\ \E w \in Writes : SaveDataIncremental(data', 1, FALSE, w)
    /\ nRecord' = nRecord + 1
    /\ lastOp' = "record"
    /\ okStreak' = 0
    /\ UNCHANGED << now, nForce >>
    /\ StoreFrame

\* self._save_data_incremental(force_save=True)
StoreForce ==
    /\ pc = "store"
    /\ nForce < MaxForce
    /\ \E w \in Writes :
          /\ SaveDataIncremental(data, 0, TRUE, w)
          /\ okStreak' = IF Wrote(data) /\ w = "ok" THEN okStreak + 1 ELSE 0
    /\ nForce' = nForce + 1
    /\ lastOp' = "force"
    /\ UNCHANGED << data, now, nRecord >>
    /\ StoreFrame

\* time passes between two calls
StoreTick ==
    /\ pc = "store"
    /\ now < MaxClock
    /\ now' = now + 1
    /\ UNCHANGED << data, properties_processed, backup_counter, disk, flushCount,
                    lastWrite, lastOp, okStreak, nRecord, nForce >>
    /\ StoreFrame

\* the final flush of run(): self.data_handler.save_data(self.data)
StoreFinal ==
    /\ pc = "store"
    /\ pc' = "stored"
    /\ \E w \in Writes :
          /\ disk' = save_data(disk, csv_filename, json_filename, now, data, w)
          /\ lastWrite' = IF Wrote(data) THEN w ELSE "none"
    /\ flushCount' = IF Wrote(data) THEN flushCount + 1 ELSE flushCount
    /\ lastOp' = "final"
    /\ okStreak' = 0
    /\ UNCHANGED << mode, max_pages, scrape_project_units, interval, storage,
                    data, properties_processed, backup_counter,
                    csv_filename, json_filename, now,
                    ctrl_driver, listing_driver, detail_driver, project_driver, live, sessions,
                    sec, page, captcha_encountered, links, page_properties,
                    hrefBudget, fetchCount, nRecord, nForce,
                    log, faultAt, recoveries, blockedSeen, loadFailSeen,
                    discovered, dispatched, unitAttempts, returned, nCalls, skipped, stats, arg, ret >>

NextStore == StoreRecord \/ StoreForce \/ StoreTick \/ StoreFinal

SpecStore == InitStore /\ [][NextStore]_vars

(***************************************************************************)
(* The extractors on their own: scrape_property and                        *)
(* scrape_project_with_units called on any URL, their results accumulated  *)
(* the way run() accumulates them.                                         *)
(***************************************************************************)
InitExtract ==
    /\ Constructed("venta", 1, TRUE, BACKUP_INTERVAL, "ok")
    /\ pc = "extract"

\* what the extractor calls leave alone
ExtractFrame ==
    UNCHANGED << mode, max_pages, scrape_project_units, interval, storage,
                 properties_processed, backup_counter,
                 csv_filename, json_filename, disk, now,
                 ctrl_driver, listing_driver, detail_driver, project_driver, live, sessions,
                 pc, sec, page, captcha_encountered, links, page_properties,
                 hrefBudget, flushCount, lastWrite, okStreak, nRecord, nForce,
                 fetchCount, blockedSeen, loadFailSeen,
                 log, faultAt, recoveries, discovered, skipped, stats, arg, ret >>

\* property_result = self.detail_scraper.scrape_property(url); self.data.append(property_result)
CallScrapeProperty ==
    /\ pc = "extract"
    /\ nCalls < MaxCalls
    /\ \E url \in Urls, f \in ContentFetches :
          /\ returned' = << scrape_property(url, f) >>
          /\ dispatched' = << [url |-> url, failed |-> AttemptFailed(f),
                               outcome |-> f.outcome, parse |-> f.page.parse,
                               unit_list |-> "none"] >>
    /\ unitAttempts' = << >>
    /\ data' = data \o returned'
    /\ nCalls' = nCalls + 1
    /\ lastOp' = "scrape_property"
    /\ ExtractFrame

\* project_data = self.project_scraper.scrape_project_with_units(url); self.data.extend(project_data)
CallScrapeProjectWithUnits ==
    /\ pc = "extract"
    /\ nCalls < MaxCalls
    /\ \E url \in ProjectUrls, f1 \in ContentFetches :
       \E f2 \in UnitListFetches(f1, MaxLinks) :
          \E ufs \in [1 .. Len(extract_unit_links(f2)) -> ContentFetches] :
             LET unit_links == IF AttemptFailed(f1) THEN << >> ELSE extract_unit_links(f2)
             IN /\ returned' = scrape_project_with_units(url, f1, f2, ufs)
                /\ dispatched' = << [url |-> url, failed |-> AttemptFailed(f1),
                                     outcome |-> f1.outcome, parse |-> f1.page.parse,
                                     unit_list |-> IF AttemptFailed(f1) THEN "none"
                                                   ELSE f2.outcome] >>
                /\ unitAttempts' = [i \in 1 .. Len(unit_links) |->
                                      [url |-> unit_links[i], failed |-> AttemptFailed(ufs[i])]]
    /\ data' = data \o returned'
    /\ nCalls' = nCalls + 1
    /\ lastOp' = "scrape_project_with_units"
    /\ ExtractFrame

\* self.data_handler.log_statistics(self.data), on the list accumulated so far
LogStatistics ==
    /\ pc \in {"extract", "stats"}
    /\ stats' = << generate_statistics(data) >>
    /\ pc' = "summarized"
    /\ lastOp' = "statistics"
    /\ UNCHANGED << mode, max_pages, scrape_project_units, interval, storage,
                    data, properties_processed, backup_counter,
                    csv_filename, json_filename, disk, now,
                    ctrl_driver, listing_driver, detail_driver, project_driver, live, sessions,
                    sec, page, captcha_encountered, links, page_properties,
                    hrefBudget, flushCount, lastWrite, okStreak, nRecord, nForce,
                    fetchCount, blockedSeen, loadFailSeen,
                    log, faultAt, recoveries, discovered, dispatched, unitAttempts,
                    returned, nCalls, skipped, arg, ret >>

NextExtract == CallScrapeProperty \/ CallScrapeProjectWithUnits \/ LogStatistics

SpecExtract == InitExtract /\ [][NextExtract]_vars

(***************************************************************************)
(* generate_statistics on its own: any list of records, with any of the    *)
(* fields the summary reads present or missing.                            *)
(***************************************************************************)
StatRecords ==
    [Title : {"T", "N/A", Absent},
     Error : {None, "scraping_error"},
     Is_Project : {Si, Absent},
     Is_Project_Unit : {Si, Absent},
     Property_Category : {"Lote/Terreno", "Construccion"}]

InitStats ==
    /\ Constructed("venta", 1, TRUE, BACKUP_INTERVAL, "ok")
    /\ pc = "stats"

\* one more record in the list to summarize
StatsAppend ==
    /\ pc = "stats"
    /\ Len(data) < MaxStatLen
    /\ \E r \in StatRecords : data' = Append(data, r)
    /\ lastOp' = "append"
    /\ UNCHANGED << mode, max_pages, scrape_project_units, interval, storage,
                    properties_processed, backup_counter,
                    csv_filename, json_filename, disk, now,
                    ctrl_driver, listing_driver, detail_driver, project_driver, live, sessions,
                    pc, sec, page, captcha_encountered, links, page_properties,
                    hrefBudget, flushCount, lastWrite, okStreak, nRecord, nForce,
                    fetchCount, blockedSeen, loadFailSeen,
                    log, faultAt, recoveries, discovered, dispatched, unitAttempts,
                    returned, nCalls, skipped, stats, arg, ret >>

NextStats == StatsAppend \/ LogStatistics

SpecStats == InitStats /\ [][NextStats]_vars

(***************************************************************************)
(* The helper functions on their own (utils/helpers.py and the field       *)
(* extractors of scrapers/detail_scraper.py).  A text is the set of the    *)
(* keywords it contains.                                                   *)
(***************************************************************************)
\* what the helper calls leave alone
HelperFrame ==
    UNCHANGED << mode, max_pages, scrape_project_units, interval, storage,
                 data, properties_processed, backup_counter,
                 csv_filename, json_filename, disk, now,
                 ctrl_driver, listing_driver, detail_driver, project_driver, live, sessions,
                 sec, page, captcha_encountered, links, page_properties,
                 hrefBudget, flushCount, lastWrite, okStreak, nRecord, nForce,
                 fetchCount, blockedSeen, loadFailSeen,
                 log, faultAt, recoveries, discovered, dispatched, unitAttempts,
                 returned, nCalls, skipped, stats >>

\* keyword in text
Contains(text, keyword) == keyword \in text

\* the keywords extract_business_type looks for in the operation-type field
OperationWords == {"Venta", "Arriendo", "Renta"}
\* the keywords it looks for in the lowered URL and in the lowered page text
BusinessWords == {"venta", "arriendo", "renta"}

\* the third tier of extract_business_type: the text of the whole page
PageTextTier(page_text) ==
    IF Contains(page_text, "venta") /\ ~Contains(page_text, "arriendo") THEN "Venta"
    ELSE IF Contains(page_text, "arriendo") \/ Contains(page_text, "renta") THEN "Arriendo"
    ELSE "N/A"

\* extract_business_type(url, soup): operation_type is the text of the
\* operation-type field, url the lowered URL, page_text the lowered page text
extract_business_type(operation_type, url, page_text) ==
    IF Contains(operation_type, "Venta") THEN "Venta"
    ELSE IF Contains(operation_type, "Arriendo") \/ Contains(operation_type, "Renta")
         THEN "Arriendo"
    ELSE IF Contains(url, "venta") THEN "Venta"
    ELSE IF Contains(url, "arriendo") \/ Contains(url, "renta") THEN "Arriendo"
    ELSE PageTextTier(page_text)

InitHelpers ==
    /\ Constructed("venta", 1, TRUE, BACKUP_INTERVAL, "ok")
    /\ pc = "helpers"

\* "Business Type": extract_business_type(url, soup)
CallExtractBusinessType ==
    /\ pc = "helpers"
    /\ \E operation_type \in SUBSET OperationWords,
          url \in SUBSET BusinessWords,
          page_text \in SUBSET BusinessWords :
          /\ arg' = [operation_type |-> operation_type, url |-> url, page_text |-> page_text]
          /\ ret' = extract_business_type(operation_type, url, page_text)
    /\ lastOp' = "extract_business_type"
    /\ pc' = "returned"
    /\ HelperFrame

\* the most elements of a page that _extract_garage_specific scans for text
MaxElements == 2

\* what the first two steps of _extract_garage_specific find: the first number
\* in an element with the parking attribute, the first number in the value
\* next to a parking icon, or nothing
FoundNumbers == {"none", "3"}

\* an element whose class matches details-item-value|value|facilities__item:
\* its class, whether its text holds a garage keyword, whether it holds an
\* area keyword, and the first number in it
GarageElements ==
    [class : {"details-item-value", "facilities__item"},
     garage : BOOLEAN,
     area : BOOLEAN,
     number : {"none", "2", "45"}]

\* step 3 accepts the text of an element
GarageTextAccepted(e) == e.garage /\ ~e.area /\ e.number # "none"

\* step 4 accepts the text of an element
FacilityAccepted(e) == e.class = "facilities__item" /\ e.garage

\* _extract_garage_specific(soup): exact and icon are what steps 1 and 2 find,
\* elements the elements step 3 scans, in document order
extract_garage_specific(exact, icon, elements) ==
    IF exact # "none" THEN exact
    ELSE IF icon # "none" THEN icon
    ELSE LET texts == SelectSeq(elements, GarageTextAccepted)
             facilities == SelectSeq(elements, FacilityAccepted)
         IN  IF texts # << >> THEN texts[1].number
             ELSE IF facilities # << >> THEN "1"
             ELSE "N/A"

\* "Garage": self._extract_garage_specific(soup)
CallExtractGarageSpecific ==
    /\ pc = "helpers"
    /\ \E exact \in FoundNumbers, icon \in FoundNumbers,
          elements \in SeqsUpTo(GarageElements, MaxElements) :
          /\ arg' = [exact |-> exact, icon |-> icon, elements |-> elements]
          /\ ret' = extract_garage_specific(exact, icon, elements)
    /\ lastOp' = "extract_garage_specific"
    /\ pc' = "returned"
    /\ HelperFrame

\* the wait of _handle_captcha: the seconds drawn and the seconds slept
CallHandleCaptchaWait ==
    /\ pc = "helpers"
    /\ \E wait_time \in CaptchaWaitMin .. CaptchaWaitMax :
          /\ arg' = [wait_time |-> wait_time]
          /\ ret' = SleepFrom(wait_time)
    /\ lastOp' = "handle_captcha_wait"
    /\ pc' = "returned"
    /\ HelperFrame

\* a '.next' element inside '.pagination': whether it has the class disabled,
\* whether it has the attribute disabled, and whether the word occurs in its
\* markup elsewhere (aria-disabled="false", a data attribute, its text)
NextControls == [class_disabled : BOOLEAN, attr_disabled : BOOLEAN, word_elsewhere : BOOLEAN]

\* '.pagination .next:not(.disabled), .pagination .next[disabled]' selects c
NextButtonSelected(c) == ~c.class_disabled \/ c.attr_disabled

\* 'disabled' in str(c)
MarkupHasDisabled(c) == c.class_disabled \/ c.attr_disabled \/ c.word_elsewhere

\* check_pagination_limit(soup, page_num) on a document: no_results tells
\* whether '.no-results, .empty-state, .no-listings' selects anything, nexts
\* are its next-page controls in document order
check_pagination_limit_soup(no_results, nexts) ==
    IF no_results THEN TRUE
    ELSE LET next_buttons == SelectSeq(nexts, NextButtonSelected)
         IN  next_buttons # << >> /\ MarkupHasDisabled(next_buttons[1])

\* self.listing_scraper.check_pagination_limit(soup, page)
CallCheckPaginationLimit ==
    /\ pc = "helpers"
    /\ \E no_results \in BOOLEAN, nexts \in SeqsUpTo(NextControls, MaxElements) :
          /\ arg' = [no_results |-> no_results, nexts |-> nexts]
          /\ ret' = check_pagination_limit_soup(no_results, nexts)
    /\ lastOp' = "check_pagination_limit"
    /\ pc' = "returned"
    /\ HelperFrame

\* the most anchors of a project page
MaxAnchors == 3

\* BASE_URL, and the hrefs a page writes: a path alone, or a path after the
\* base
BASE_URL == "https://www.properati.com.co"
Hrefs == [base : {"", BASE_URL}, path : ProjectHrefs]

\* urljoin(BASE_URL, href)
urljoin(base, href) == [base |-> base, path |-> href.path]

\* an anchor of a project page: its href, whether it lies in a card the
\* selectors '.similar-snippet a', '.unit-card a', '.listing-card a' and
\* '[data-test*=property-card] a' reach, and whether it lies in a section
\* '.units-section, .available-units, .project-units'
Anchors == [href : Hrefs, card : BOOLEAN, section : BOOLEAN]

\* soup.select("a[href*='/detalle/']") selects a
DetalleAnchor(a) == HasDetalle(a.href.path)
\* the card selectors select a
CardAnchor(a) == a.card
\* section.select("a[href*='/detalle/']") selects a, for one of the sections
SectionAnchor(a) == a.section /\ HasDetalle(a.href.path)

\* a filter that lets every href through
UnitHrefAny(a) == TRUE

\* if href and '/detalle/' in href
UnitHref(a) == HasDetalle(a.href.path)

\* full_url = urljoin(BASE_URL, href) for each of anchors, in their order
FullUrlsOf(anchors) == [i \in 1 .. Len(anchors) |-> urljoin(BASE_URL, anchors[i].href)]

\* the general pass of extract_unit_links: selector after selector, the
\* filtered hrefs of each in document order, each href once
GeneralPass(anchors) ==
    OrderedUnique(FullUrlsOf(SelectSeq(SelectSeq(anchors, DetalleAnchor) \o
                                    SelectSeq(anchors, CardAnchor), UnitHref)))

\* the pass over the units sections
ScopedPass(anchors) == OrderedUnique(FullUrlsOf(SelectSeq(anchors, SectionAnchor)))

\* extract_unit_links(project_url) on the document its fetch returns: the
\* general pass, and the scoped pass `if not unit_links`
extract_unit_links_soup(outcome, anchors) ==
    IF outcome # "ok" THEN << >>
    ELSE IF GeneralPass(anchors) # << >> THEN GeneralPass(anchors)
    ELSE ScopedPass(anchors)

\* unit_links = self.extract_unit_links(project_url)
CallExtractUnitLinks ==
    /\ pc = "helpers"
    /\ \E outcome \in FetchOutcomes, anchors \in SeqsUpTo(Anchors, MaxAnchors) :
          /\ outcome # "ok" => anchors = << >>
          /\ arg' = [outcome |-> outcome, anchors |-> anchors]
          /\ ret' = extract_unit_links_soup(outcome, anchors)
    /\ lastOp' = "extract_unit_links"
    /\ pc' = "returned"
    /\ HelperFrame

NextHelpers ==
    \/ CallExtractBusinessType
    \/ CallExtractGarageSpecific
    \/ CallHandleCaptchaWait
    \/ CallCheckPaginationLimit
    \/ CallExtractUnitLinks

SpecHelpers == InitHelpers /\ [][NextHelpers]_vars

(***************************************************************************)
(* SeleniumBaseScraper.scroll_page (scrapers/base_scraper.py), step by     *)
(* step: arg holds max_scrolls and the heights document.body.scrollHeight  *)
(* has returned, ret the scroll requests made and last_height.             *)
(***************************************************************************)
\* the largest max_scrolls of a call (the default is 6) and the largest height
MaxScrolls == 6
MaxHeight == 3
Heights == 1 .. MaxHeight

\* a loop that never finds the height settled
ScrollSettledNever(new_height, last_height) == FALSE

\* if new_height == last_height: break
ScrollSettled(new_height, last_height) == new_height = last_height

InitScroll ==
    /\ Constructed("venta", 1, TRUE, BACKUP_INTERVAL, "ok")
    /\ pc = "scroll"

\* the call: last_height = driver.execute_script("return document.body.scrollHeight")
ScrollPageEnter ==
    /\ pc = "scroll"
    /\ \E max_scrolls \in 0 .. MaxScrolls, h \in Heights :
          /\ arg' = [max_scrolls |-> max_scrolls, heights |-> << h >>]
          /\ ret' = [scrolls |-> 0, last_height |-> h]
    /\ pc' = "scrolling"
    /\ lastOp' = "scroll_enter"
    /\ HelperFrame

\* one turn of the loop: scrollTo, the pause, new_height, the break or
\* last_height = new_height
ScrollRequest ==
    /\ pc = "scrolling"
    /\ ret.scrolls < arg.max_scrolls
    /\ \E new_height \in Heights :
          /\ arg' = [arg EXCEPT !.heights = Append(@, new_height)]
          /\ ret' = [scrolls |-> ret.scrolls + 1, last_height |-> new_height]
          /\ pc' = IF ScrollSettled(new_height, ret.last_height)
                   THEN "returned" ELSE "scrolling"
    /\ lastOp' = "scroll_request"
    /\ HelperFrame

\* range(max_scrolls) is used up
ScrollRangeExhausted ==
    /\ pc = "scrolling"
    /\ ret.scrolls >= arg.max_scrolls
    /\ pc' = "returned"
    /\ lastOp' = "scroll_exhausted"
    /\ UNCHANGED << arg, ret >>
    /\ HelperFrame

\* execute_script raises (the session is gone): scroll_page ends by raising
ScrollRaises ==
    /\ pc = "scrolling"
    /\ pc' = "raised"
    /\ lastOp' = "scroll_raises"
    /\ UNCHANGED << arg, ret >>
    /\ HelperFrame

NextScroll ==
    \/ ScrollPageEnter
    \/ ScrollRequest
    \/ ScrollRangeExhausted
    \/ ScrollRaises

\* every script call and every pause returns, so the loop keeps going
SpecScroll == InitScroll /\ [][NextScroll]_vars /\ WF_vars(NextScroll)

(***************************************************************************)
(* Claims about the checkpointed store.                                    *)
(***************************************************************************)
\* the output of the run's two files is the in-memory record list
PersistedIsData ==
    /\ disk[json_filename] = data
    /\ disk[csv_filename] = ToCsv(data)

C8_FlushCadence ==
    /\ (pc = "store" /\ nForce = 0) => flushCount = nRecord \div interval
    /\ (pc = "store" /\ nForce = 1 /\ lastOp = "force" /\ data # << >>)
          => flushCount = (nRecord \div interval) + 1

\* C8 witness: a forced flush after N records, N above the threshold and not
\* a multiple of it
C8_Witness ==
    /\ pc = "store"
    /\ nForce = 1
    /\ lastOp = "force"
    /\ interval > 1
    /\ nRecord > interval
    /\ nRecord % interval # 0
    /\ flushCount = (nRecord \div interval) + 1

TerminalActions == {"final_flush", "statistics", "teardown"}

\* C1 (as stated): however run() ends, by completion, by a CAPTCHA stop or by
\* a fault raised inside the traversal loop, the final flush, the statistics
\* summary and the teardown of the browser have all been performed.
C1_TerminalActionsAlways ==
    (pc = "done" /\ faultAt # "setup") => TerminalActions \subseteq log

\* C1 (amended): when run() returns the browser session has been torn down;
\* the final flush and the statistics summary have been performed when the
\* loops ended without a fault, and after a fault whenever the record list is
\* not empty; after a fault with an empty record list neither is performed.
C1_TerminalActions ==
    pc = "done" =>
        /\ "teardown" \in log
        /\ ctrl_driver \notin live
        /\ (faultAt = "none" \/ data # << >>) => TerminalActions \subseteq log
        /\ (faultAt # "none" /\ data = << >>) => log = {"teardown"}
        /\ storage = "ok" => PersistedIsData

\* C1 witness: a run that collected records, then met a fault in the
\* traversal loop, and returned with all three terminal actions performed
C1_Witness ==
    /\ pc = "done"
    /\ faultAt = "handle_captcha"
    /\ data # << >>
    /\ storage = "ok"
    /\ TerminalActions \subseteq log

\* C2: once the captcha flag is set it stays set, and no page of any kind is
\* fetched from then on.
C2_CaptchaStopsFetching ==
    [][captcha_encountered => (captcha_encountered' /\ fetchCount' = fetchCount)]_vars

\* C2 witness: the flag was set in the first of two sections after records
\* were collected, and the second section was skipped at its head
C2_Witness ==
    /\ lastOp = "skip"
    /\ captcha_encountered
    /\ mode = "todos"
    /\ sec = 2
    /\ page = 1
    /\ data # << >>

\* some record of d has the URL u
HasRecord(d, u) == \E j \in 1 .. Len(d) : d[j].URL = u
\* some record of d has the URL u and an Error
HasErrorRecord(d, u) == \E j \in 1 .. Len(d) : d[j].URL = u /\ ~Falsy(d[j].Error)

\* every link dispatched from a listing page has a record, with Error when
\* its attempt failed
LinksRecorded ==
    \A i \in 1 .. Len(dispatched) :
        /\ HasRecord(data, dispatched[i].url)
        /\ dispatched[i].failed => HasErrorRecord(data, dispatched[i].url)

\* C3 (as stated): every URL the run attempted as a property, project or
\* project-unit page has a record, one with Error when the attempt failed.
C3_EveryAttemptRecorded ==
    /\ LinksRecorded
    /\ \A i \in 1 .. Len(unitAttempts) :
          /\ HasRecord(data, unitAttempts[i].url)
          /\ unitAttempts[i].failed => HasErrorRecord(data, unitAttempts[i].url)

\* C3 (amended): every link dispatched from a listing page, property or
\* project, has a record, one with Error when its attempt failed; of the
\* project units attempted, exactly the ones scraped without failure have a
\* unit record, and a failed unit leaves none.
C3_EveryLinkRecorded ==
    /\ LinksRecorded
    /\ Cardinality({j \in 1 .. Len(data) : data[j].Is_Project_Unit = Si})
          = Cardinality({i \in 1 .. Len(unitAttempts) : ~unitAttempts[i].failed})
    /\ \A j \in 1 .. Len(data) : data[j].Is_Project_Unit = Si => Falsy(data[j].Error)

\* C3 witness: a finished run that dispatched a project link, recorded it,
\* and attempted a unit of it that failed and has no record at all
C3_Witness ==
    /\ pc = "done"
    /\ \E i \in 1 .. Len(dispatched) :
          HasProyecto(dispatched[i].url) /\ HasRecord(data, dispatched[i].url)
    /\ \E i \in 1 .. Len(unitAttempts) :
          unitAttempts[i].failed /\ ~HasRecord(data, unitAttempts[i].url)

\* s is a prefix of t
IsPrefix(s, t) == Len(s) <= Len(t) /\ \A i \in 1 .. Len(s) : s[i] = t[i]

\* the URLs of the records of d that are not project units
LinkLevelUrls(d) ==
    LET l == SelectSeq(d, LAMBDA r : r.Is_Project_Unit # Si)
    IN  [i \in 1 .. Len(l) |-> l[i].URL]

\* the URLs of the unit records of d
UnitUrls(d) ==
    LET l == SelectSeq(d, LAMBDA r : r.Is_Project_Unit = Si)
    IN  [i \in 1 .. Len(l) |-> l[i].URL]

\* the URLs of the units scraped without failure, in the order of the attempts
ScrapedUnits ==
    LET l == SelectSeq(unitAttempts, LAMBDA a : ~a.failed)
    IN  [i \in 1 .. Len(l) |-> l[i].url]

\* C4: the record list is in discovery order: pages in the order they were
\* fetched, the links of a page in the order the listing extractor met them,
\* and the units of a project right after it in the order they were found.
C4_DiscoveryOrder ==
    /\ IsPrefix(LinkLevelUrls(data), discovered)
    /\ UnitUrls(data) = ScrapedUnits
    /\ \A j \in 1 .. Len(data) :
          data[j].Is_Project_Unit = Si =>
             /\ j > 1
             /\ \/ data[j - 1].URL = data[j].Project_Parent
                \/ data[j - 1].Project_Parent = data[j].Project_Parent

\* C5: whenever a fetch of the run was blocked by a CAPTCHA, the run-level
\* flag is set and the recovery has been performed.
C5_BlockedSetsFlag ==
    blockedSeen => (captcha_encountered /\ recoveries >= 1)

\* C6: a run whose only failed fetches are load failures never sets the
\* captcha flag and never performs the CAPTCHA recovery.
C6_LoadFailureIsNotCaptcha ==
    (loadFailSeen /\ ~blockedSeen) => (~captcha_encountered /\ recoveries = 0)

(***************************************************************************)
(* Claims about the extractors.                                            *)
(***************************************************************************)
\* C10: every record scrape_property and scrape_project_with_units produce,
\* error records of every kind included, has a non-empty URL and an
\* Extraction Date.
C10_UrlAndExtractionDate ==
    \A i \in 1 .. Len(data) :
        /\ ~Falsy(data[i].URL)
        /\ ~Falsy(data[i].ExtractionDate)

\* C11: no two records of the accumulated record list have the same URL.
C11_UniqueUrls ==
    \A i, j \in 1 .. Len(data) : data[i].URL = data[j].URL => i = j

\* the last call of the extractor harness was scrape_project_with_units on a
\* project page that loaded and was parsed
ProjectPageScraped ==
    /\ lastOp = "scrape_project_with_units"
    /\ ~dispatched[1].failed

\* C12: when the project page loads, scrape_project_with_units returns the
\* project record followed by exactly the units scraped without Error, in
\* discovery order, each tagged with Project_Parent, Project_Name and
\* Is_Project_Unit; a failed unit is absent and the length is 1 plus the
\* number of successful units.
C12_ProjectThenSuccessfulUnits ==
    ProjectPageScraped =>
        /\ Len(returned) = 1 + Len(ScrapedUnits)
        /\ returned[1].URL = dispatched[1].url
        /\ returned[1].Is_Project = Si
        /\ Falsy(returned[1].Error)
        /\ returned[1].Is_Project_Unit = Absent
        /\ [i \in 1 .. Len(returned) - 1 |-> returned[i + 1].URL] = ScrapedUnits
        /\ \A i \in 2 .. Len(returned) :
              /\ Falsy(returned[i].Error)
              /\ returned[i].Project_Parent = dispatched[1].url
              /\ returned[i].Project_Name = returned[1].Title
              /\ returned[i].Is_Project_Unit = Si

\* C12 witness: of two units the first failed and the second, scraped after
\* it, is the only unit of the result
C12_Witness ==
    /\ ProjectPageScraped
    /\ Len(unitAttempts) = 2
    /\ unitAttempts[1].failed
    /\ ~unitAttempts[2].failed
    /\ Len(returned) = 2
    /\ returned[2].URL = unitAttempts[2].url

\* C13: scrape_property returns exactly one record with the URL it was given:
\* Error "CAPTCHA detected" when the fetch was blocked, an Error that
\* diagnoses the failure when the page failed to load or a fault was raised,
\* Error "Unknown URL type" when the URL has neither path marker, and no
\* Error only when a page was parsed.
C13_OneRecordWithDiagnosis ==
    lastOp = "scrape_property" =>
        LET call == dispatched[1]
            r == returned[1]
            marked == HasDetalle(call.url) \/ HasProyecto(call.url)
        IN  /\ Len(returned) = 1
            /\ r.URL = call.url
            /\ call.outcome = "captcha" => r.Error = "CAPTCHA detected"
            /\ call.outcome \in {"timeout", "exception"} =>
                  ~Falsy(r.Error) /\ r.Error # "CAPTCHA detected"
            /\ (call.outcome = "ok" /\ marked /\ call.parse = "raises") =>
                  r.Error = "scraping_error"
            /\ (call.outcome = "ok" /\ ~marked) => r.Error = "Unknown URL type"
            /\ Falsy(r.Error) => (call.outcome = "ok" /\ marked /\ call.parse = "ok")

\* C14: a run that returns after its loops reports "interrupted by CAPTCHA"
\* exactly when some fetch of the run was blocked by a CAPTCHA, and
\* "completed" exactly when none was.
C14_EndMessageTellsCaptcha ==
    (pc = "done" /\ faultAt = "none") =>
        /\ "interrupted" \in log <=> blockedSeen
        /\ "completed" \in log <=> ~blockedSeen

(***************************************************************************)
(* Claims about the statistics.                                            *)
(***************************************************************************)
\* the number of records of d that satisfy keep, counted by position
NumberOf(d, keep(_)) == Cardinality({i \in 1 .. Len(d) : keep(d[i])})

\* C15: for every record list R, the summary's total_records is len(R) and
\* its individual_properties is valid_records - projects - project_units,
\* each of the three counting the records of its kind.
C15_SummaryIdentities ==
    pc = "summarized" =>
        /\ stats[1].total_records = Len(data)
        /\ stats[1].valid_records = NumberOf(data, IsValid)
        /\ stats[1].projects = NumberOf(data, IsProject)
        /\ stats[1].project_units = NumberOf(data, IsProjectUnit)
        /\ stats[1].individual_properties =
              stats[1].valid_records - stats[1].projects - stats[1].project_units

\* C15 witness: a summary of two records, one of them a project, one of them
\* not valid
C15_Witness ==
    /\ pc = "summarized"
    /\ stats[1].total_records = 2
    /\ stats[1].projects = 1
    /\ stats[1].valid_records = 1

\* C16: the summary of a record list accumulated from scrape_property and
\* scrape_project_with_units has individual_properties >= 0.
C16_IndividualPropertiesNonNegative ==
    pc = "summarized" => stats[1].individual_properties >= 0

(***************************************************************************)
(* Claims about the helper functions.                                      *)
(***************************************************************************)
\* the call reached the page-text tier: no keyword in the operation-type
\* field and none in the URL
InPageTextTier ==
    /\ lastOp = "extract_business_type"
    /\ arg.operation_type = {}
    /\ arg.url = {}

\* the tiers of extract_business_type are applied in order and the result is
\* one of the three values
BusinessTypeTiersInOrder ==
    lastOp = "extract_business_type" =>
        /\ ret \in {"Venta", "Arriendo", "N/A"}
        /\ Contains(arg.operation_type, "Venta") => ret = "Venta"
        /\ (arg.operation_type # {} /\ ~Contains(arg.operation_type, "Venta")) => ret = "Arriendo"
        /\ (arg.operation_type = {} /\ Contains(arg.url, "venta")) => ret = "Venta"
        /\ (arg.operation_type = {} /\ arg.url # {} /\ ~Contains(arg.url, "venta")) =>
              ret = "Arriendo"

\* C17 (as stated): the tiers are applied in order, and in the page-text tier
\* "arriendo" or "renta" gives Arriendo whether or not "venta" appears, Venta
\* being returned only when "venta" appears and neither rental keyword does.
C17_RentalKeywordWins ==
    /\ BusinessTypeTiersInOrder
    /\ InPageTextTier =>
          /\ (Contains(arg.page_text, "arriendo") \/ Contains(arg.page_text, "renta")) =>
                ret = "Arriendo"
          /\ ret = "Venta" => arg.page_text = {"venta"}

\* the call found no garage value by attribute or by icon
GarageByTextOnly ==
    /\ lastOp = "extract_garage_specific"
    /\ arg.exact = "none"
    /\ arg.icon = "none"

\* the elements of the call whose text holds a garage keyword
GarageTexts == SelectSeq(arg.elements, LAMBDA e : e.garage)

\* C18: with no garage value by attribute or icon, a garage-keyword text with
\* a number and no area keyword yields that number, and when every
\* garage-keyword text also holds an area keyword the result is "N/A",
\* whichever element carries the text.
C18_GarageTextAreaExclusion ==
    GarageByTextOnly =>
        /\ (Len(GarageTexts) = 1 /\ GarageTextAccepted(GarageTexts[1])) =>
              ret = GarageTexts[1].number
        /\ (GarageTexts # << >> /\ \A i \in 1 .. Len(GarageTexts) : GarageTexts[i].area) =>
              ret = "N/A"

(***************************************************************************)
(* More claims about the run.                                              *)
(***************************************************************************)
\* C19: the CAPTCHA recovery of _handle_captcha is executed at most once in
\* a run: it starts only while the flag is unset, and sets it.
C19_AtMostOneRecovery ==
    [][/\ recoveries' <= 1
       /\ sessions' <= 2
       /\ recoveries' # recoveries =>
             /\ recoveries' = recoveries + 1
             /\ ~captcha_encountered
             /\ captcha_encountered']_vars

\* C19 witness: a run that recovered once, with the second browser session,
\* after it had collected records and had a detail fetch blocked
C19_Witness ==
    /\ pc = "done"
    /\ recoveries = 1
    /\ sessions = 2
    /\ data # << >>
    /\ \E i \in 1 .. Len(data) : data[i].Error = "CAPTCHA detected"

\* the sleeps of the recovery add up to the seconds drawn
RecoverySleepsWaitTime ==
    lastOp = "handle_captcha_wait" => ret = arg.wait_time

\* a step that dispatches one link
LinkDispatched == Len(dispatched') = Len(dispatched) + 1

C21_PageBoundaryPersisted ==
    (lastOp = "page_end" /\ storage = "ok") => PersistedIsData

(***************************************************************************)
(* Claims about paging and sessions.                                       *)
(***************************************************************************)
\* a step that fetches a listing page
ListingFetchStep == pc = "page" /\ fetchCount' = fetchCount + 1

\* a listing fetch that loaded and ended the paging of its section: no
\* recovery, no link to process
ListingBreakStep ==
    ListingFetchStep /\ recoveries' = recoveries /\ pc' # "links"

\* C22: a listing page that shows the end of pagination or holds no link ends
\* the paging of its section, below the page ceiling too, leaves the captcha
\* flag unset and leads to the first page of the next section (to the end of
\* the run after the last section); the pages fetched for a section have
\* strictly increasing numbers, none above max_pages, and a section once left
\* is not fetched again.
C22_SectionPagingEnds ==
    [][/\ ListingBreakStep =>
             /\ ~captcha_encountered /\ ~captcha_encountered'
             /\ IF sec < Len(Sections(mode))
                THEN pc' = "page" /\ sec' = sec + 1 /\ page' = 1
                ELSE pc' = "final"
       /\ ListingFetchStep => page <= max_pages
       /\ (pc \in {"page", "links"} /\ pc' = "page" /\ sec' = sec) => page' = page + 1
       /\ sec' >= sec]_vars

\* C22 witness: with a ceiling of two pages the first section ended on its
\* first page, after one fetch and without a CAPTCHA, and the second section
\* has had its first page fetched
C22_Witness ==
    /\ max_pages = 2
    /\ sec = 2
    /\ lastOp = "listing"
    /\ fetchCount = 2
    /\ recoveries = 0
    /\ ~captcha_encountered

\* C23: at most one browser session is live at any time; a session is ended
\* only by the orchestrator, in its recovery or in its teardown, and it is the
\* session of the controller; a recovery that creates a session has ended the
\* old one first, and leaves the controller and the listing, detail and
\* project extractors on the new session; while pages are fetched every
\* extractor holds a live session.
C23_OneLiveSession ==
    [][/\ Cardinality(live') <= 1
       /\ live' # live =>
             /\ recoveries' = recoveries + 1 \/ (pc = "finally" /\ pc' = "done")
             /\ (live \ live') \subseteq {ctrl_driver}
       /\ sessions' # sessions =>
             /\ recoveries' = recoveries + 1
             /\ sessions' \notin live
             /\ ctrl_driver \notin live'
             /\ live' = {sessions'}
             /\ {ctrl_driver', listing_driver', detail_driver', project_driver'}
                   = {sessions'}
       /\ pc' \in {"page", "links"} =>
             {ctrl_driver', listing_driver', detail_driver', project_driver'}
                \subseteq live']_vars

\* C23 witness: right after a recovery the second session is the only live
\* one and the three extractors hold it
C23_Witness ==
    /\ lastOp = "listing"
    /\ recoveries = 1
    /\ sessions = 2
    /\ live = {2}
    /\ listing_driver = 2
    /\ detail_driver = 2
    /\ project_driver = 2
    /\ ctrl_driver = 2

(***************************************************************************)
(* Claims about pagination, unit links and scrolling.                      *)
(***************************************************************************)
\* a next-page control that is disabled, by attribute or by class
NextControlDisabled(c) == c.class_disabled \/ c.attr_disabled

\* C24: check_pagination_limit returns true exactly when the document holds a
\* no-results marker or a next-page control that is disabled, by a disabled
\* attribute or by a disabled class; otherwise it returns false.
C24_PaginationExhaustedExactly ==
    lastOp = "check_pagination_limit" =>
       (ret = (\/ arg.no_results
               \/ \E i \in 1 .. Len(arg.nexts) : NextControlDisabled(arg.nexts[i])))

\* the position of the first anchor that leads to url
FirstAnchor(anchors, url) ==
    CHOOSE i \in 1 .. Len(anchors) :
       /\ anchors[i].href.path = url.path
       /\ \A j \in 1 .. i - 1 : anchors[j].href.path # url.path

\* C25: extract_unit_links returns a list without duplicates, of URLs that
\* all hold the detail marker, in the order in which the document first shows
\* them; when the general pass finds a link the list is what that pass found
\* and the units sections add nothing; a project page that was blocked or
\* failed to load gives the empty list.
C25_UnitLinks ==
    lastOp = "extract_unit_links" =>
       LET anchors == arg.anchors
           marked == {anchors[i].href.path : i \in {j \in 1 .. Len(anchors) :
                                                       HasDetalle(anchors[j].href.path)}}
       IN /\ \A i, j \in 1 .. Len(ret) : ret[i].path = ret[j].path => i = j
          /\ \A i \in 1 .. Len(ret) : ret[i].base = BASE_URL /\ HasDetalle(ret[i].path)
          /\ \A i, j \in 1 .. Len(ret) :
                i < j => FirstAnchor(anchors, ret[i]) < FirstAnchor(anchors, ret[j])
          /\ marked # {} => {ret[i].path : i \in 1 .. Len(ret)} = marked
          /\ GeneralPass(anchors) # << >> => ret = GeneralPass(anchors)
          /\ arg.outcome # "ok" => ret = << >>

\* C25 witness: a page that shows one unit twice, first by its path and then
\* in a units section by its full URL, and another unit after it, gives the
\* two units in that order
C25_Witness ==
    /\ lastOp = "extract_unit_links"
    /\ Len(arg.anchors) = 3
    /\ arg.anchors[1].href.path = arg.anchors[2].href.path
    /\ arg.anchors[1].href.base # arg.anchors[2].href.base
    /\ arg.anchors[2].section
    /\ Len(ret) = 2
    /\ ret[1].path = arg.anchors[1].href.path
    /\ ret[2].path = arg.anchors[3].href.path

\* the scroll requests that left the height as it was before them
SettledAt(heights) == {i \in 1 .. Len(heights) - 1 : heights[i + 1] = heights[i]}

\* while scroll_page runs, and when it has returned, what it has done so far
ScrollSoFar ==
    /\ ret.scrolls <= arg.max_scrolls
    /\ ret.scrolls = Len(arg.heights) - 1
    /\ ret.last_height = arg.heights[Len(arg.heights)]
    /\ pc = "scrolling" => SettledAt(arg.heights) = {}
    /\ pc = "returned" =>
          \/ SettledAt(arg.heights) = {ret.scrolls}
          \/ SettledAt(arg.heights) = {} /\ ret.scrolls = arg.max_scrolls

\* C26: scroll_page ends, after at most max_scrolls scroll requests, and the
\* first scroll request that leaves the height equal to the height measured
\* before it is the last one.
C26_ScrollEnds ==
    /\ [](pc \in {"scrolling", "returned", "raised"} => ScrollSoFar)
    /\ <>(pc \in {"returned", "raised"})

\* C26 witness: a call with the default of six scrolls that returned after
\* its third request, the first to leave the height unchanged
C26_Witness ==
    /\ pc = "returned"
    /\ arg.max_scrolls = 6
    /\ ret.scrolls = 3
    /\ arg.heights[4] = arg.heights[3]
    /\ arg.heights[2] # arg.heights[1]

(***************************************************************************)
(* Claims about the loss window, the last page and termination.            *)
(***************************************************************************)
\* the in-memory records the output does not hold
Unpersisted == Len(data) - Len(disk[json_filename])

\* C27: at every point of run() between two link dispatches the persisted
\* record list is a prefix of the in-memory list and fewer than
\* BACKUP_INTERVAL records behind it, the since-last-flush counter is the
\* number of records not yet persisted, and the processed counter is the
\* length of the in-memory list, also when writes to storage fail.
C27_BoundedLossWindow ==
    pc = "links" =>
       /\ IsPrefix(disk[json_filename], data)
       /\ Unpersisted < interval
       /\ backup_counter = Unpersisted
       /\ properties_processed = Len(data)

\* url was handed to an extractor
Dispatched(url) == \E i \in 1 .. Len(dispatched) : dispatched[i].url = url

\* C28: when run() has ended, every property or project link that was present
\* on a listing page the orchestrator fetched successfully has been
\* dispatched to an extractor, the links of the page on which the end of
\* pagination was detected included.
C28_LastPageLinksDispatched ==
    pc = "done" =>
       /\ \A i \in 1 .. Len(discovered) : Dispatched(discovered[i])
       /\ \A url \in skipped : Dispatched(url)

\* C29: whenever scrape_project_with_units returns a project record without
\* Error, the unit link list came from a fetch of the project page that
\* succeeded, and every unit link of the page was attempted: a block or load
\* failure while the unit list is obtained is never reported as a successful
\* project with no units.
C29_ProjectPageConsistency ==
    (lastOp = "scrape_project_with_units" /\ Falsy(returned[1].Error))
       => /\ dispatched[1].outcome = "ok"
          /\ dispatched[1].unit_list = "ok"

RECURSIVE LinkFetchCount(_)
\* the fetches the dispatches d made before any unit: one for a property and
\* for a project whose page failed, two for a project whose page loaded
LinkFetchCount(d) ==
    IF d = << >> THEN 0
    ELSE LinkFetchCount(Tail(d)) +
         (IF ~Head(d).failed /\ HasProyecto(Head(d).url) /\ scrape_project_units
          THEN 2 ELSE 1)

\* the fetches of listing pages so far
ListingFetchCount == fetchCount - LinkFetchCount(dispatched) - Len(unitAttempts)

\* what run() has spent so far stays within its bounds
RunWithinBounds ==
    /\ ListingFetchCount >= 0
    /\ ListingFetchCount <= Len(Sections(mode)) * max_pages
    /\ recoveries <= 1
    /\ Len(dispatched) <= Len(discovered)
    /\ fetchCount - ListingFetchCount <= 2 * Len(discovered) + Len(unitAttempts)

\* C30: when every fetch and every pause returns, run() reaches its end, with
\* at most |sections| x max_pages listing fetches, at most one recovery and a
\* number of detail and unit fetches bounded by the links discovered; a link
\* whose fetch failed is not fetched again within its dispatch.
C30_RunTerminates ==
    /\ <>(pc = "done")
    /\ []RunWithinBounds
    /\ [][(LinkDispatched /\ dispatched'[Len(dispatched')].failed)
             => fetchCount' = fetchCount + 1]_vars

\* C30 witness: a run over two sections that used every listing fetch it may,
\* had a link fail, and reached its end
C30_Witness ==
    /\ pc = "done"
    /\ mode = "todos"
    /\ max_pages = 2
    /\ ListingFetchCount = 4
    /\ \E i \in 1 .. Len(dispatched) : dispatched[i].failed

====
